---- MODULE Spec2Model ----
(***************************************************************************)
(* State-machine model of the 2gisHack front end: the route/drawer store   *)
(* (Shared/RouteContext.jsx), the bottom drawer's drag gestures            *)
(* (components/BottomDrawer.jsx), the debounced address search of the      *)
(* Finder and the route overlays built by the map page.                    *)
(***************************************************************************)
EXTENDS Integers, Sequences, FiniteSets, TLC

\* ------------------------------------------------------------------ bounds
\* Pointer positions are sampled on a grid of YStep pixels up to MaxY.
MaxY == 100
YStep == 25
\* Re-subscriptions of the drag listeners followed within one drag.
MaxResubscribe == 3
\* Longest text typed into a search field.
MaxTextLen == 3
\* Search calls issued while the Finder stays mounted (both fields together).
MaxSearches == 2
\* Route overlay instances created on the map.
MaxOverlays == 2
\* Stages of a route response (more than the palette has colors).
MaxStages == 6
\* Map clicks that rebuild the layers after the style has loaded.
MaxRebuilds == 2
\* Changes of the geolocation that make the map page build its map anew.
MaxReinits == 1

\* -------------------------------------------------------- program constants
\* BottomDrawer.jsx: const threshold = 50
threshold == 50

NULL == "null"
\* Values handed to updateRouteData: null (falsy) or a route object.
RouteValues == {NULL, "routeA", "routeB"}
YPositions == {y \in 0..MaxY : y % YStep = 0}
\* The two search fields of the Finder and the texts typed into them.
Fields == {"from", "to"}
Alphabet == {"k"}
Texts == UNION {[1..n -> Alphabet] : n \in 0..MaxTextLen}
\* The texts one keystroke away from `text`: a character typed at its end, or
\* its last character deleted.
Keystrokes(text) ==
  {Append(text, c) : c \in Alphabet} \cup
  (IF text = <<>> THEN {} ELSE {SubSeq(text, 1, Len(text) - 1)})

\* The four profile-route buttons of the Finder.
Profiles == {"wheelchair", "restrooms", "lowStimulus", "green"}
OverlayIds == 1..MaxOverlays

\* How a geocoding call ends: items found, nothing found, or a failure.
Outcomes == {"items", "empty", "failed"}
\* address.full_name || address.address_name of a suggestion
AddressNames == {t \in Texts : Len(t) >= 2}

\* ---------------------------------------------------- route responses
\* A value that may be missing (undefined / null) is a sequence: <<>> when it
\* is missing, <<v>> when it is there.
Absent == <<>>
Present(v) == <<v>>

\* geom.selection: two well-known-text line strings and a string that
\* wellknown.parse cannot read
ValidSelections == {"LINESTRING(0 0,1 1)", "LINESTRING(1 1,2 2)"}
Selections == ValidSelections \cup {"LINESTRING("}

\* The nesting of a response: stages[].routes[].raw_data.movements[]
\* .alternatives[].geometry[].selection
Geom(selection) == Present([selection |-> selection])
Alternative(geometry) == Present([geometry |-> geometry])
Movement(alternatives) == Present([alternatives |-> alternatives])
RawData(movements) == Present([movements |-> movements])
Route(raw_data) == Present([raw_data |-> raw_data])
Stage(routes) == Present([routes |-> routes])
StageWithAlternatives(alternatives) ==
  Stage(Present(<<Route(RawData(Present(<<Movement(alternatives)>>)))>>))
StageWithGeometry(geometry) ==
  StageWithAlternatives(Present(<<Alternative(geometry)>>))

PlainStage == StageWithGeometry(Present(<<Geom("LINESTRING(0 0,1 1)")>>))
\* Stages without geometries: an empty or a missing collection at some depth.
EmptyStages ==
  { StageWithGeometry(Present(<<>>)), StageWithGeometry(Absent),
    StageWithAlternatives(Present(<<Absent>>)), StageWithAlternatives(Absent),
    Stage(Present(<<Route(RawData(Present(<<Absent>>)))>>)),
    Stage(Present(<<Route(RawData(Absent))>>)),
    Stage(Present(<<Route(Absent)>>)),
    Stage(Present(<<Absent>>)), Stage(Present(<<>>)), Stage(Absent) }
StageShapes ==
  EmptyStages \cup
  { PlainStage,
    StageWithGeometry(Present(<<Geom("LINESTRING(0 0,1 1)"),
                                Geom("LINESTRING(1 1,2 2)")>>)),
    StageWithGeometry(Present(<<Geom("LINESTRING(")>>)),
    \* a geometry list holding a missing record, and a missing stage
    StageWithGeometry(Present(<<Geom("LINESTRING(0 0,1 1)"), Absent>>)),
    Absent }
\* Responses: missing, without stages, or up to MaxStages plain stages one of
\* which may have any of the shapes.
Responses ==
  {Absent, Present([stages |-> Absent])} \cup
  { Present([stages |-> Present([i \in 1..n |->
                 IF i = p THEN shape ELSE PlainStage])]) :
      n \in 0..MaxStages, p \in 1..MaxStages, shape \in StageShapes }

\* ------------------------------------------------------- generateLayers
\* const colors = ['#0000ff', '#ff0000', '#00ff00', '#ffa500', '#800080']
colors == <<"#0000ff", "#ff0000", "#00ff00", "#ffa500", "#800080">>
Undefined == "undefined"
\* colors[index], index counted from 0
ColorAt(index) == IF index < Len(colors) THEN colors[index + 1] ELSE Undefined

\* wellknown.parse(selection): the geometry, or null for unreadable text
wellknownParse(selection) ==
  IF selection \in ValidSelections
  THEN Present([type |-> "LineString", wkt |-> selection])
  ELSE Absent

RECURSIVE Flatten(_)
Flatten(seqs) == IF seqs = <<>> THEN <<>> ELSE Head(seqs) \o Flatten(Tail(seqs))

\* forEach over a collection whose callback yields `results`: a TypeError in
\* one callback ends the whole call
ForEach(results) ==
  [raised |-> \E i \in DOMAIN results : results[i].raised,
   features |-> Flatten([i \in DOMAIN results |-> results[i].features])]
Nothing == [raised |-> FALSE, features |-> <<>>]

\* (geom) => { geometry = wellknown.parse(geom.selection); if (geometry)
\* features.push({type: 'Feature', geometry, properties: {bar}}) }
\* geom.selection raises when the record is missing
GeomFeatures(geom, index) ==
  IF geom = Absent THEN [raised |-> TRUE, features |-> <<>>]
  ELSE LET geometry == wellknownParse(geom[1].selection) IN
       [raised |-> FALSE,
        features |-> IF geometry # Absent
                     THEN <<[type |-> "Feature", geometry |-> geometry[1],
                             bar |-> ToString(index)]>>
                     ELSE <<>>]

\* alternative?.geometry?.forEach(...)
AlternativeFeatures(alternative, index) ==
  IF alternative = Absent \/ alternative[1].geometry = Absent THEN Nothing
  ELSE LET list == alternative[1].geometry[1] IN
       ForEach([i \in DOMAIN list |-> GeomFeatures(list[i], index)])

\* movement?.alternatives?.forEach(...)
MovementFeatures(movement, index) ==
  IF movement = Absent \/ movement[1].alternatives = Absent THEN Nothing
  ELSE LET list == movement[1].alternatives[1] IN
       ForEach([i \in DOMAIN list |-> AlternativeFeatures(list[i], index)])

\* route?.raw_data?.movements?.forEach(...)
RouteFeatures(route, index) ==
  IF route = Absent THEN Nothing
  ELSE IF route[1].raw_data = Absent THEN Nothing
  ELSE IF route[1].raw_data[1].movements = Absent THEN Nothing
  ELSE LET list == route[1].raw_data[1].movements[1] IN
       ForEach([i \in DOMAIN list |-> MovementFeatures(list[i], index)])

\* stage.routes?.forEach(...): stage.routes raises when the stage is missing
StageFeatures(stage, index) ==
  IF stage = Absent THEN [raised |-> TRUE, features |-> <<>>]
  ELSE IF stage[1].routes = Absent THEN Nothing
  ELSE LET list == stage[1].routes[1] IN
       ForEach([i \in DOMAIN list |-> RouteFeatures(list[i], index)])

\* new mapglAPI.GeoJsonSource(map, {data: {type: 'FeatureCollection',
\* features}, attributes: {bar: index.toString()}})
GeoJsonSource(index, features) ==
  [bar |-> ToString(index), features |-> features]

\* {id: `my-polygons-layer-${index}`, filter: ['match', ['sourceAttr', 'bar'],
\* [index.toString()], true, false], type: 'line',
\* style: {color: colors[index], width: 2}}
Layer(index) ==
  [id |-> <<"my-polygons-layer", index>>, filter |-> ToString(index),
   type |-> "line", color |-> ColorAt(index), width |-> 2]

\* The stages of a response: response?.stages, [] when missing
StagesOf(response) ==
  IF response = Absent \/ response[1].stages = Absent THEN <<>>
  ELSE response[1].stages[1]

\* mutant: a stage without features gets no source and no layer
generateLayers_SkipsEmpty(response) ==
  LET stages == StagesOf(response)
      result == [i \in DOMAIN stages |-> StageFeatures(stages[i], i - 1)]
      kept == SelectSeq([i \in DOMAIN stages |-> i],
                        LAMBDA i : result[i].features # <<>>)
  IN [raised |-> \E i \in DOMAIN stages : result[i].raised,
      sources |-> [j \in DOMAIN kept |->
                     GeoJsonSource(kept[j] - 1, result[kept[j]].features)],
      layers |-> [j \in DOMAIN kept |-> Layer(kept[j] - 1)]]

\* generateLayers(response, mapglAPI, map): for every stage, in order, the
\* features of its geometries are collected, a source is created on the map
\* and a layer is pushed.  When a stage raises, the call ends there: the
\* sources of the stages before it exist, no layer is returned.
generateLayers(response) ==
  LET stages == StagesOf(response)
      result == [i \in DOMAIN stages |-> StageFeatures(stages[i], i - 1)]
      done == IF \E i \in DOMAIN stages : result[i].raised
              THEN (CHOOSE i \in DOMAIN stages :
                      /\ result[i].raised
                      /\ \A j \in 1..(i - 1) : ~result[j].raised) - 1
              ELSE Len(stages)
  IN [raised |-> done < Len(stages),
      sources |-> [i \in 1..done |-> GeoJsonSource(i - 1, result[i].features)],
      layers |-> IF done < Len(stages) THEN <<>>
                 ELSE [i \in 1..done |-> Layer(i - 1)]]

\* --------------------------------------- RoutingService.parseWKTLineString
\* A text is a sequence of characters; the ten letters of the keyword are
\* one character.
Keyword == "LINESTRING"
Digits == {ToString(d) : d \in 0..9}
DigitValue(c) == CHOOSE d \in 0..9 : ToString(d) = c

\* JavaScript values of a coordinate: a number, NaN, undefined
JsNumber(n) == [kind |-> "number", value |-> n]
NaN == [kind |-> "NaN", value |-> 0]
NoValue == [kind |-> "undefined", value |-> 0]

\* wktString.replace(/LINESTRING\(|\)/g, ''): every "LINESTRING(" and every
\* ")" is removed
RECURSIVE ReplaceLinestring(_)
ReplaceLinestring(text) ==
  IF text = <<>> THEN <<>>
  ELSE IF Len(text) >= 2 /\ text[1] = Keyword /\ text[2] = "("
       THEN ReplaceLinestring(SubSeq(text, 3, Len(text)))
  ELSE IF text[1] = ")" THEN ReplaceLinestring(Tail(text))
  ELSE <<text[1]>> \o ReplaceLinestring(Tail(text))

\* text.split(separator): the pieces between the separators, [''] for ''
RECURSIVE Split(_, _)
Split(text, separator) ==
  IF \A i \in DOMAIN text : text[i] # separator THEN <<text>>
  ELSE LET i == CHOOSE k \in DOMAIN text :
                  /\ text[k] = separator
                  /\ \A j \in 1..(k - 1) : text[j] # separator
       IN <<SubSeq(text, 1, i - 1)>>
            \o Split(SubSeq(text, i + 1, Len(text)), separator)

\* text.trim()
RECURSIVE Trim(_)
Trim(text) ==
  IF text = <<>> THEN <<>>
  ELSE IF Head(text) = " " THEN Trim(Tail(text))
  ELSE IF text[Len(text)] = " " THEN Trim(SubSeq(text, 1, Len(text) - 1))
  ELSE text

RECURSIVE DecimalValue(_)
DecimalValue(digits) ==
  IF digits = <<>> THEN 0
  ELSE 10 * DecimalValue(SubSeq(digits, 1, Len(digits) - 1))
         + DigitValue(digits[Len(digits)])

\* Number(text): 0 for '', the value of a numeral, NaN for anything else
Number(text) ==
  IF text = <<>> THEN JsNumber(0)
  ELSE IF \A i \in DOMAIN text : text[i] \in Digits
       THEN JsNumber(DecimalValue(text))
  ELSE NaN

\* const [lon, lat] = pair.trim().split(' ').map(Number); return [lon, lat]
ParsePair(pair) ==
  LET numbers == LET parts == Split(Trim(pair), " ")
                 IN [i \in DOMAIN parts |-> Number(parts[i])]
      At(i) == IF i <= Len(numbers) THEN numbers[i] ELSE NoValue
  IN <<At(1), At(2)>>

\* mutant: the pair is returned as [lat, lon]
parseWKTLineString_LatLon(wktString) ==
  LET coordPairs == Split(ReplaceLinestring(wktString), ",")
  IN [i \in DOMAIN coordPairs |->
        <<ParsePair(coordPairs[i])[2], ParsePair(coordPairs[i])[1]>>]

\* parseWKTLineString(wktString): coordsString = wktString.replace(...);
\* coordPairs = coordsString.split(','); return coordPairs.map(pair => ...)
parseWKTLineString(wktString) ==
  LET coordPairs == Split(ReplaceLinestring(wktString), ",")
  IN [i \in DOMAIN coordPairs |-> ParsePair(coordPairs[i])]

\* The texts handed to the decoder.  A well-formed text is written from a
\* list of (lon, lat) pairs; a malformed one is such a text with one defect.
MaxPairs == 2
Coordinates == {1, 2, 12}
PairLists == UNION {[1..n -> Coordinates \X Coordinates] : n \in 1..MaxPairs}
Defects == {"none", "noClosing", "noOpening", "nonNumeric", "shortPair",
            "noPairs"}
Numeral(n) ==
  IF n < 10 THEN <<ToString(n)>> ELSE <<ToString(n \div 10), ToString(n % 10)>>
\* "lon lat", with the defect of the text applied to its first pair
WritePair(pairs, i, defect) ==
  IF i = 1 /\ defect = "nonNumeric" THEN <<"x", " ">> \o Numeral(pairs[i][2])
  ELSE IF i = 1 /\ defect = "shortPair" THEN Numeral(pairs[i][1])
  ELSE Numeral(pairs[i][1]) \o <<" ">> \o Numeral(pairs[i][2])
RECURSIVE WritePairs(_, _, _, _)
WritePairs(pairs, i, spaced, defect) ==
  IF i > Len(pairs) THEN <<>>
  ELSE (IF i = 1 THEN <<>> ELSE IF spaced THEN <<",", " ">> ELSE <<",">>)
         \o WritePair(pairs, i, defect)
         \o WritePairs(pairs, i + 1, spaced, defect)
\* "LINESTRING(lon lat,lon lat)", pairs separated by "," or ", "
WriteWKT(pairs, spaced, defect) ==
  <<Keyword>>
    \o (IF defect = "noOpening" THEN <<>> ELSE <<"(">>)
    \o (IF defect = "noPairs" THEN <<>> ELSE WritePairs(pairs, 1, spaced, defect))
    \o (IF defect = "noClosing" THEN <<>> ELSE <<")">>)

\* ------------------------------------------------------ chat messages
MaxSends == 3
WelcomeMessage == [kind |-> "welcome", n |-> 0]
UserMessage(n) == [kind |-> "user", n |-> n]
\* the placeholder {isLoading: true}
LoadingMessage(n) == [kind |-> "loading", n |-> n]
BotMessage(n) == [kind |-> "reply", n |-> n]
ErrorMessage(n) == [kind |-> "error", n |-> n]
\* chatMessages.filter((msg) => !msg.isLoading)
WithoutLoading(messages) ==
  SelectSeq(messages, LAMBDA msg : msg.kind # "loading")

Abs(x) == IF x < 0 THEN -x ELSE x

VARIABLES
  \* RouteProvider (Shared/RouteContext.jsx)
  routeData, isDrawerOpen,
  \* history: the last store mutator that ran, its argument, and the drawer
  \* state and route it found
  lastOp,
  \* Layout / BottomDrawer (Shared/Layout.jsx, components/BottomDrawer.jsx)
  layoutMounted, isDragging, startY, currentY,
  \* document-level move/end listeners of the drawer
  listenersAttached,
  \* history of the current (or last) drag
  attachCount, detachCount, preDragOpen, lastDelta, gestureDone, interfered,
  \* the browser owes the handle a click event (press and release on it)
  pendingClick,
  \* Finder (address search): fromValue/toValue, the debounced values and
  \* their timers, fromSuggestions/toSuggestions, isSearching, and the search
  \* calls awaiting their response (cancelled: a suggestion of the call's
  \* field was picked while it was on its way)
  value, debounced, timerArmed, suggestions, isSearching, inflight,
  \* history per field: number of calls issued, and the call whose response
  \* the suggestion list now shows (0: none)
  issued, applied,
  \* Finder (profile routes): isLoading / isRestroomsLoading /
  \* isLowStimulusLoading / isGreenLoading, and the route requests awaiting
  \* their response (live: the Finder that sent it is still mounted)
  loading, profileCalls,
  \* zustand store: responsePoints, firstPoint, secondPoint (set or null)
  responsePoints, firstPoint, secondPoint,
  \* MapProvider's mapInstance (set or undefined)
  contextMap,
  \* Map page: the init effect has run; the directionsInstance state (0: null)
  \* and the directionsInstance seen by the closures the init effect captured
  mapReady, directionsInstance, handlerDirections,
  \* the Directions instances created on the map, by number: "none",
  \* "created" (no route drawn yet), "drawn" or "cleared"
  overlays, created,
  \* buildRouteOnClick calls awaiting the route/safely response
  clickCalls,
  \* history: the notice (window.alert) raised by the last step of a
  \* profile-route handler, if any
  lastAlert,
  \* history: the route builders whose failure escaped as an unhandled
  \* promise rejection
  unhandled,
  \* history: where the last click-built route started, and whether a
  \* geolocation fix was known when the map was clicked
  clickStart,
  \* Map page with generated layers: the map exists (initMap has passed its
  \* await), mapglAPIState is set, the style has loaded
  mapLoaded, mapglAPIState, styleLoaded,
  \* the mapglAPIState and mapInstance held by the handleMapClick that the
  \* init effect registered
  clickHandler,
  \* the route response built into the page (consts.bigResponce)
  response,
  \* the sources and layers on the living map, in order of creation
  mapSources, mapLayers,
  \* history: the last generateLayers call raised; what that call created
  \* and the map it was given; rebuilds and map re-creations so far
  raised, lastBuilt, rebuilds, reinits,
  \* RoutingService: the text last decoded and the coordinates returned;
  \* history: the pairs the text was written from and its defect
  wktString, coordinates, written, defect,
  \* useGeolocation: the fix is known, an error is set, a request is loading;
  \* the requests navigator.geolocation has not answered yet
  location, geoError, isGeoLoading, geoPending,
  \* Map: the hook's mount effects have run; the stored permission, the
  \* prompt state; history: the user's answer to the prompt
  geoMounted, geolocationPermission, hasRequestedLocation,
  showGeolocationPrompt, answered,
  \* store: chatMessages; ChatPage: the sends awaiting their response, each
  \* with the chatMessages of the render whose handler runs; sends so far
  chatMessages, chatPending, sends

storeVars == <<routeData, isDrawerOpen, lastOp>>
drawerVars == <<layoutMounted, isDragging, startY, currentY, listenersAttached,
                attachCount, detachCount, preDragOpen, lastDelta, gestureDone,
                interfered, pendingClick>>
searchVars == <<value, debounced, timerArmed, suggestions, isSearching,
                inflight, issued, applied>>
finderVars == <<searchVars, loading, profileCalls>>
mapVars == <<responsePoints, firstPoint, secondPoint, contextMap, mapReady,
             directionsInstance, handlerDirections, overlays, created,
             clickCalls, lastAlert, unhandled, clickStart>>
layerVars == <<mapLoaded, mapglAPIState, styleLoaded, clickHandler, response,
               mapSources, mapLayers, raised, lastBuilt, rebuilds, reinits>>
wktVars == <<wktString, coordinates, written, defect>>
geoVars == <<location, geoError, isGeoLoading, geoPending, geoMounted,
             geolocationPermission, hasRequestedLocation,
             showGeolocationPrompt, answered>>
chatVars == <<chatMessages, chatPending, sends>>
otherVars == <<wktVars, geoVars, chatVars>>
vars == <<storeVars, drawerVars, finderVars, mapVars, layerVars, otherVars>>

NoAlert == [kind |-> "none", profile |-> "none"]
NoClick == [from |-> "none", fix |-> FALSE]
NotBuilt == [sources |-> <<>>, layers |-> <<>>, map |-> "none"]
NoOp == [op |-> "none", arg |-> NULL, was |-> FALSE, wasRoute |-> NULL]

\* Finder's useState initial values (a fresh mount)
FinderInit ==
  /\ value = [f \in Fields |-> <<>>]
  /\ debounced = [f \in Fields |-> <<>>]
  /\ timerArmed = [f \in Fields |-> FALSE]
  /\ suggestions = [f \in Fields |-> <<>>]
  /\ isSearching = FALSE
  /\ inflight = {}
  /\ issued = [f \in Fields |-> 0]
  /\ applied = [f \in Fields |-> 0]
  /\ loading = [k \in Profiles |-> FALSE]

Init ==
  /\ FinderInit
  /\ profileCalls = {}
  /\ responsePoints = FALSE
  /\ firstPoint = FALSE
  /\ secondPoint = FALSE
  /\ contextMap = FALSE
  /\ mapReady = FALSE
  /\ directionsInstance = 0
  /\ handlerDirections = 0
  /\ overlays = [i \in OverlayIds |-> "none"]
  /\ created = 0
  /\ clickCalls = {}
  /\ lastAlert = NoAlert
  /\ unhandled = {}
  /\ clickStart = NoClick
  /\ mapLoaded = FALSE
  /\ mapglAPIState = FALSE
  /\ styleLoaded = FALSE
  /\ clickHandler = [api |-> FALSE, map |-> "null"]
  /\ response = Absent
  /\ mapSources = <<>>
  /\ mapLayers = <<>>
  /\ raised = FALSE
  /\ lastBuilt = NotBuilt
  /\ rebuilds = 0
  /\ reinits = 0
  /\ wktString = <<>>
  /\ coordinates = <<>>
  /\ written = <<>>
  /\ defect = "none"
  /\ location = FALSE
  /\ geoError = FALSE
  /\ isGeoLoading = FALSE
  /\ geoPending = 0
  /\ geoMounted = FALSE
  /\ geolocationPermission = "null"
  /\ hasRequestedLocation = FALSE
  /\ showGeolocationPrompt = FALSE
  /\ answered = "none"
  /\ chatMessages = <<>>
  /\ chatPending = {}
  /\ sends = 0
  /\ routeData = NULL
  /\ isDrawerOpen = FALSE
  /\ lastOp = NoOp
  /\ layoutMounted = TRUE
  /\ isDragging = FALSE
  /\ startY = 0
  /\ currentY = 0
  /\ listenersAttached = FALSE
  /\ attachCount = 0
  /\ detachCount = 0
  /\ preDragOpen = FALSE
  /\ lastDelta = 0
  /\ gestureDone = FALSE
  /\ interfered = FALSE
  /\ pendingClick = FALSE

\* ------------------------------------------------------------- the store
\* mutant: the drawer is opened whatever data is (the `if (data)` is lost)
updateRouteData_AlwaysOpens(data) ==
  /\ routeData' = data
  /\ isDrawerOpen' = TRUE
  /\ lastOp' = [op |-> "setRoute", arg |-> data, was |-> isDrawerOpen,
                wasRoute |-> routeData]

\* updateRouteData(data): setRouteData(data); if (data) setIsDrawerOpen(true)
updateRouteData(data) ==
  /\ routeData' = data
  /\ isDrawerOpen' = IF data # NULL THEN TRUE ELSE isDrawerOpen
  /\ lastOp' = [op |-> "setRoute", arg |-> data, was |-> isDrawerOpen,
                wasRoute |-> routeData]

\* mutant: the drawer is flipped instead of being set to the target
toggleDrawer_Flips(open) ==
  /\ isDrawerOpen' = ~isDrawerOpen
  /\ routeData' = routeData
  /\ lastOp' = [op |-> "toggle", arg |-> IF open THEN "true" ELSE "false",
                was |-> isDrawerOpen, wasRoute |-> routeData]

\* toggleDrawer(open): setIsDrawerOpen(open)
toggleDrawer(open) ==
  /\ isDrawerOpen' = open
  /\ routeData' = routeData
  /\ lastOp' = [op |-> "toggle", arg |-> IF open THEN "true" ELSE "false",
                was |-> isDrawerOpen, wasRoute |-> routeData]

\* mutant: the route is removed but the drawer is left as it is
clearRoute_KeepsDrawer ==
  /\ routeData' = NULL
  /\ isDrawerOpen' = isDrawerOpen
  /\ lastOp' = [op |-> "clear", arg |-> NULL, was |-> isDrawerOpen,
                wasRoute |-> routeData]

\* clearRoute(): setRouteData(null); setIsDrawerOpen(false)
clearRoute ==
  /\ routeData' = NULL
  /\ isDrawerOpen' = FALSE
  /\ lastOp' = [op |-> "clear", arg |-> NULL, was |-> isDrawerOpen,
                wasRoute |-> routeData]

\* mutant: the effect has no cleanup, listeners once attached stay
ListenerEffect_NoCleanup(baseAttach, baseDetach) ==
  /\ detachCount' = baseDetach
  /\ attachCount' = baseAttach + (IF isDragging' THEN 1 ELSE 0)
  /\ listenersAttached' = (listenersAttached \/ isDragging')

\* ------------------------------------------------- the drawer's listeners
\* useEffect(..., [isDragging, currentY, startY, isOpen]): when a dependency
\* changed in this render, the previous cleanup removes the four document
\* listeners and the effect adds them again if isDragging.  `base` is the
\* pair of counters the step starts from.
ListenerEffect(baseAttach, baseDetach) ==
  IF <<isDragging, currentY, startY, isDrawerOpen>>
       # <<isDragging', currentY', startY', isDrawerOpen'>>
  THEN /\ detachCount' = baseDetach + (IF listenersAttached THEN 1 ELSE 0)
       /\ attachCount' = baseAttach + (IF isDragging' THEN 1 ELSE 0)
       /\ listenersAttached' = isDragging'
  ELSE /\ detachCount' = baseDetach
       /\ attachCount' = baseAttach
       /\ listenersAttached' = listenersAttached

CounterRoom == attachCount < MaxResubscribe

\* ---------------------------------------------------- the Finder's lifetime
\* Layout renders <Finder /> as the drawer's children and BottomDrawer renders
\* its children only while isOpen: the Finder exists while the layout is
\* mounted and the drawer is open.
FinderMounted == layoutMounted /\ isDrawerOpen

\* When the Finder mounts it starts from its initial state; when it unmounts
\* its state is dropped, its debounce timers are cleared and responses still
\* on their way reach no component (a route request of an unmounted Finder
\* still runs to its end).
FinderLifecycle ==
  IF (layoutMounted' /\ isDrawerOpen') = FinderMounted
  THEN UNCHANGED finderVars
  ELSE /\ loading' = [k \in Profiles |-> FALSE]
       /\ profileCalls' = {[c EXCEPT !.live = FALSE] : c \in profileCalls}
       /\ value' = [f \in Fields |-> <<>>]
       /\ debounced' = [f \in Fields |-> <<>>]
       /\ timerArmed' = [f \in Fields |-> FALSE]
       /\ suggestions' = [f \in Fields |-> <<>>]
       /\ isSearching' = FALSE
       /\ inflight' = {}
       /\ issued' = [f \in Fields |-> 0]
       /\ applied' = [f \in Fields |-> 0]

\* ------------------------------------------------------ drawer gestures
\* handleTouchStart / handleMouseDown: setIsDragging(true); setStartY(y);
\* setCurrentY(y)
DragStart(y) ==
  /\ layoutMounted /\ ~pendingClick
  /\ isDragging => CounterRoom
  /\ isDragging' = TRUE
  /\ startY' = y
  /\ currentY' = y
  \* history: a press while no drag is under way begins a new drag
  /\ preDragOpen' = IF isDragging THEN preDragOpen ELSE isDrawerOpen
  /\ interfered' = (isDragging /\ interfered)
  /\ gestureDone' = FALSE
  /\ UNCHANGED <<storeVars, layoutMounted, lastDelta, pendingClick, finderVars,
                 mapVars, layerVars, otherVars>>
  /\ IF isDragging THEN ListenerEffect(attachCount, detachCount)
                   ELSE ListenerEffect(0, 0)

handleTouchStart(y) == DragStart(y)
handleMouseDown(y) == DragStart(y)

\* handleTouchMove / handleMouseMove: if (!isDragging) return;
\* setCurrentY(y).  The listeners exist only while attached.
DragMove(y) ==
  /\ layoutMounted /\ listenersAttached /\ isDragging /\ CounterRoom
  /\ currentY' = y
  /\ UNCHANGED <<storeVars, layoutMounted, isDragging, startY, preDragOpen,
                 lastDelta, gestureDone, interfered, pendingClick, finderVars,
                 mapVars, layerVars, otherVars>>
  /\ ListenerEffect(attachCount, detachCount)

handleTouchMove(y) == DragMove(y)
handleMouseMove(y) == DragMove(y)

\* handleTouchEnd: if (!isDragging) return; setIsDragging(false);
\* deltaY = currentY - startY; if (Math.abs(deltaY) > threshold) { down and
\* open: onToggle(false); up and closed: onToggle(true) }; setCurrentY(0);
\* setStartY(0)
DragEndToggles(deltaY) == Abs(deltaY) > threshold

DragEnd(click) ==
  /\ layoutMounted /\ listenersAttached /\ isDragging
  /\ LET deltaY == currentY - startY IN
       /\ lastDelta' = deltaY
       /\ IF DragEndToggles(deltaY) /\ deltaY > 0 /\ isDrawerOpen
            THEN toggleDrawer(FALSE)
          ELSE IF DragEndToggles(deltaY) /\ deltaY < 0 /\ ~isDrawerOpen
            THEN toggleDrawer(TRUE)
          ELSE UNCHANGED storeVars
  /\ isDragging' = FALSE
  /\ currentY' = 0
  /\ startY' = 0
  /\ pendingClick' = click
  /\ gestureDone' = ~click
  /\ UNCHANGED <<layoutMounted, preDragOpen, interfered>>
  /\ ListenerEffect(attachCount, detachCount)
  /\ UNCHANGED <<mapVars, layerVars, otherVars>>
  /\ FinderLifecycle

\* touchend: a touch that moved produces no click
handleTouchEnd == DragEnd(FALSE)

\* handleMouseUp: handleTouchEnd(); the browser then dispatches click to the
\* handle when the button is released over it
handleMouseUp(overHandle) == DragEnd(overHandle)

\* the handle's onClick={() => onToggle(!isOpen)}
handleClick ==
  /\ layoutMounted /\ pendingClick
  /\ toggleDrawer(~isDrawerOpen)
  /\ pendingClick' = FALSE
  /\ gestureDone' = TRUE
  /\ UNCHANGED <<layoutMounted, isDragging, startY, currentY, preDragOpen,
                 lastDelta, interfered>>
  /\ ListenerEffect(attachCount, detachCount)
  /\ UNCHANGED <<mapVars, layerVars, otherVars>>
  /\ FinderLifecycle

\* Layout leaves the tree (navigation to another route): the effect's cleanup
\* removes the listeners and the component state is dropped.
UnmountLayout ==
  /\ layoutMounted /\ ~pendingClick
  /\ layoutMounted' = FALSE
  /\ isDragging' = FALSE
  /\ startY' = 0
  /\ currentY' = 0
  /\ listenersAttached' = FALSE
  /\ detachCount' = detachCount + (IF listenersAttached THEN 1 ELSE 0)
  /\ gestureDone' = (gestureDone \/ isDragging)
  /\ UNCHANGED <<storeVars, attachCount, preDragOpen, lastDelta, interfered,
                 pendingClick>>
  /\ UNCHANGED <<mapVars, layerVars, otherVars>>
  /\ FinderLifecycle

MountLayout ==
  /\ ~layoutMounted
  /\ layoutMounted' = TRUE
  /\ UNCHANGED <<storeVars, isDragging, startY, currentY, listenersAttached,
                 attachCount, detachCount, preDragOpen, lastDelta, gestureDone,
                 interfered, pendingClick>>
  /\ UNCHANGED <<mapVars, layerVars, otherVars>>
  /\ FinderLifecycle

\* ------------------------------------- store operations called by consumers
\* A store mutator runs and the components reading the store re-render.
StoreStep(op) ==
  /\ ~pendingClick
  /\ isDragging => CounterRoom
  /\ op
  /\ interfered' = TRUE
  /\ UNCHANGED <<layoutMounted, isDragging, startY, currentY, preDragOpen,
                 lastDelta, gestureDone, pendingClick>>
  /\ ListenerEffect(attachCount, detachCount)
  /\ FinderLifecycle

StoreCall(op) ==
  /\ StoreStep(op)
  /\ UNCHANGED <<mapVars, layerVars, otherVars>>

SetRoute == \E data \in RouteValues : StoreCall(updateRouteData(data))
ClearRoute == StoreCall(clearRoute)
ToggleDrawer == \E open \in BOOLEAN : StoreCall(toggleDrawer(open))
\* The drawer is opened when collapsed and collapsed when open: onToggle(!isOpen)
FlipDrawer == StoreCall(toggleDrawer(~isDrawerOpen))

DrawerNext ==
  \/ \E y \in YPositions : handleTouchMove(y)
  \/ \E y \in YPositions : handleMouseMove(y)
  \/ handleTouchEnd
  \/ \E overHandle \in BOOLEAN : handleMouseUp(overHandle)
  \/ handleClick
  \/ \E y \in YPositions : handleTouchStart(y)
  \/ \E y \in YPositions : handleMouseDown(y)
  \/ UnmountLayout
  \/ MountLayout
  \/ SetRoute
  \/ ClearRoute
  \/ ToggleDrawer

DrawerSpec == Init /\ [][DrawerNext]_vars

\* --------------------------------------------------- the address search
TotalIssued == issued["from"] + issued["to"]

\* What the geocoding service resolves to for `query`: its items, or [] when
\* nothing matches or the request failed (geocodingService.searchAddresses
\* catches the failure and returns []).
ItemsFor(query) == <<query>>
NoItems == <<>>

\* mutant: the `query.length < 2` guard is lost
searchAddresses_NoLengthGuard(query, f) ==
  /\ isSearching' = TRUE
  /\ inflight' = inflight \cup
       {[field |-> f, query |-> query, ticket |-> issued[f] + 1,
              cancelled |-> FALSE]}
  /\ issued' = [issued EXCEPT ![f] = @ + 1]
  /\ UNCHANGED <<suggestions, applied>>

\* searchAddresses(query, setSuggestions), up to its await:
\* if (query.length < 2) { setSuggestions([]); return; }
\* setIsSearching(true); geocodingService.searchAddresses(query)
searchAddresses(query, f) ==
  IF Len(query) < 2
  THEN /\ suggestions' = [suggestions EXCEPT ![f] = NoItems]
       /\ applied' = [applied EXCEPT ![f] = 0]
       /\ UNCHANGED <<isSearching, inflight, issued>>
  ELSE /\ isSearching' = TRUE
       /\ inflight' = inflight \cup
            {[field |-> f, query |-> query, ticket |-> issued[f] + 1,
              cancelled |-> FALSE]}
       /\ issued' = [issued EXCEPT ![f] = @ + 1]
       /\ UNCHANGED <<suggestions, applied>>

\* useEffect(..., [debouncedFromValue]) / [debouncedToValue]:
\* if (debounced) searchAddresses(debounced, setSuggestions)
\* else setSuggestions([])
SearchEffect(f, text) ==
  IF text # <<>>
  THEN searchAddresses(text, f)
  ELSE /\ suggestions' = [suggestions EXCEPT ![f] = NoItems]
       /\ applied' = [applied EXCEPT ![f] = 0]
       /\ UNCHANGED <<isSearching, inflight, issued>>

\* useDebounce(value, 300) on a change of value: the timer armed for the
\* previous value is dropped and a new one is armed.
useDebounceArm(f) == timerArmed' = [timerArmed EXCEPT ![f] = TRUE]

\* useDebounce's timer expires, 300 ms after the last change of the value:
\* the debounced value becomes the current value.
useDebounceExpire(f) ==
  /\ timerArmed[f]
  /\ timerArmed' = [timerArmed EXCEPT ![f] = FALSE]
  /\ debounced' = [debounced EXCEPT ![f] = value[f]]

\* The input's onChange after a keystroke: setFromValue / setToValue
onChange(f, text) ==
  /\ FinderMounted
  /\ text \in Keystrokes(value[f]) \cap Texts
  /\ value' = [value EXCEPT ![f] = text]
  /\ useDebounceArm(f)
  /\ UNCHANGED <<debounced, suggestions, isSearching, inflight, issued,
                 applied>>
  /\ UNCHANGED <<storeVars, drawerVars, loading, profileCalls, mapVars,
                 layerVars, otherVars>>

\* handleFromAddressSelect / handleToAddressSelect: a suggestion of the list
\* is picked; setFromValue(address.full_name || address.address_name);
\* setShowFromSuggestions(false).  The new value re-arms useDebounce's timer
\* if it differs from the text typed.
handleAddressSelect(f, name) ==
  /\ FinderMounted
  /\ suggestions[f] # NoItems
  /\ value' = [value EXCEPT ![f] = name]
  /\ IF name # value[f] THEN useDebounceArm(f) ELSE UNCHANGED timerArmed
  /\ inflight' = {IF r.field = f THEN [r EXCEPT !.cancelled = TRUE] ELSE r :
                   r \in inflight}
  /\ UNCHANGED <<debounced, suggestions, isSearching, issued, applied>>
  /\ UNCHANGED <<storeVars, drawerVars, loading, profileCalls, mapVars,
                 layerVars, otherVars>>

\* The debounce timer of a field expires, and the search effect (dependency
\* list [debouncedFromValue] / [debouncedToValue]) runs if the debounced
\* value changed.
DebounceFire(f) ==
  /\ FinderMounted
  \* bound: searchAddresses is entered at most MaxSearches times
  /\ (value[f] # debounced[f] /\ value[f] # <<>>) => TotalIssued < MaxSearches
  /\ useDebounceExpire(f)
  /\ IF value[f] # debounced[f]
       THEN SearchEffect(f, value[f])
       ELSE UNCHANGED <<suggestions, isSearching, inflight, issued, applied>>
  /\ UNCHANGED value
  /\ UNCHANGED <<storeVars, drawerVars, loading, profileCalls, mapVars,
                 layerVars, otherVars>>

\* mutant: a failed call leaves the list as it was
SearchResponse_FailureKeepsList(r, outcome) ==
  /\ FinderMounted
  /\ r \in inflight
  /\ inflight' = inflight \ {r}
  /\ suggestions' = [suggestions EXCEPT
       ![r.field] = IF outcome = "items" THEN ItemsFor(r.query)
                    ELSE IF outcome = "failed" THEN @ ELSE NoItems]
  /\ applied' = [applied EXCEPT
       ![r.field] = IF outcome = "failed" THEN 0 ELSE r.ticket]
  /\ isSearching' = FALSE
  /\ UNCHANGED <<value, debounced, timerArmed, issued>>
  /\ UNCHANGED <<storeVars, drawerVars, loading, profileCalls, mapVars,
                 layerVars, otherVars>>

\* searchAddresses after its await: setSuggestions(results); finally
\* setIsSearching(false).  results is [] when nothing matched and when the
\* call failed (geocodingService.searchAddresses catches and returns []; the
\* catch of searchAddresses itself does setSuggestions([])).
SearchResponse(r, outcome) ==
  /\ FinderMounted
  /\ r \in inflight
  /\ inflight' = inflight \ {r}
  /\ suggestions' = [suggestions EXCEPT
       ![r.field] = IF outcome = "items" THEN ItemsFor(r.query) ELSE NoItems]
  \* history: after a failure the list shows the response of no call
  /\ applied' = [applied EXCEPT
       ![r.field] = IF outcome = "failed" THEN 0 ELSE r.ticket]
  /\ isSearching' = FALSE
  /\ UNCHANGED <<value, debounced, timerArmed, issued>>
  /\ UNCHANGED <<storeVars, drawerVars, loading, profileCalls, mapVars,
                 layerVars, otherVars>>

SearchNext ==
  \/ \E f \in Fields, text \in Texts : onChange(f, text)
  \/ \E f \in Fields : DebounceFire(f)
  \/ \E f \in Fields, name \in AddressNames : handleAddressSelect(f, name)
  \/ \E r \in inflight, outcome \in Outcomes : SearchResponse(r, outcome)
  \/ FlipDrawer

SearchSpec == Init /\ [][SearchNext]_vars

\* ----------------------------------------------------- the route overlays
Alive == {i \in OverlayIds : overlays[i] \in {"created", "drawn"}}
Pending == Cardinality(clickCalls) + Cardinality(profileCalls)
\* bound: every build that is started can create its overlay
OverlayRoom == created + Pending < MaxOverlays

\* ChatPage: setResponsePoints(response.data.points), before the map page
\* is opened
setResponsePoints ==
  /\ ~mapReady /\ ~responsePoints
  /\ responsePoints' = TRUE
  /\ UNCHANGED <<firstPoint, secondPoint, contextMap, mapReady,
                 directionsInstance, handlerDirections, overlays, created,
                 clickCalls, lastAlert, unhandled, clickStart>>
  /\ UNCHANGED <<storeVars, drawerVars, finderVars, layerVars, otherVars>>

\* The head of buildRouteFromStore and of buildRouteOnClick:
\* if (directionsInstance) directionsInstance.clear();
\* directions = new Directions(map, ...); setDirectionsInstance(directions)
\* `seen` is the directionsInstance of the render whose closure runs;
\* `state` is what the new instance shows when the step ends.
NewDirections(seen, state) ==
  /\ created' = created + 1
  /\ overlays' = [i \in OverlayIds |->
       IF i = created + 1 THEN state
       ELSE IF i = seen /\ overlays[i] \in {"created", "drawn"} THEN "cleared"
       ELSE overlays[i]]
  /\ directionsInstance' = created + 1

\* buildRouteFromStore(map, points): the head, then
\* directions.pedestrianRoute({points}), whose promise is neither awaited
\* nor given a catch: when the draw is rejected, the rejection is unhandled.
buildRouteFromStore(seen, drawOk) ==
  /\ NewDirections(seen, IF drawOk THEN "drawn" ELSE "created")
  /\ unhandled' = IF drawOk THEN unhandled ELSE unhandled \cup {"store"}

\* if (location && ...) startPoint = the fix; else if (markerInstance)
\* startPoint = the marker's coordinates; else the default coordinates
StartPoint(fix, marker) ==
  IF fix THEN "geolocation" ELSE IF marker THEN "marker" ELSE "default"

\* The state the builders of the mounting render close over: the init effect
\* has the dependency list [], so the click handler calls the
\* buildRouteOnClick of the first render, where location (useGeolocation)
\* and markerInstance still have their initial value null.
MountClosure == [location |-> FALSE, markerInstance |-> FALSE]

\* buildRouteOnClick(map, coordinates) up to its await of the route/safely
\* request
buildRouteOnClick(seen) ==
  /\ NewDirections(seen, "created")
  /\ clickCalls' = clickCalls \cup {created + 1}
  /\ clickStart' = [from |-> StartPoint(MountClosure.location,
                                        MountClosure.markerInstance),
                    fix |-> location]

\* The init effect of Map (dependency list []): the map and the marker are
\* created, the route of the stored points is built and the click handler
\* is registered.  Both builders are the ones of the mounting render.
MapInit ==
  /\ ~mapReady
  /\ mapReady' = TRUE
  /\ handlerDirections' = directionsInstance
  /\ IF responsePoints
       THEN \E drawOk \in BOOLEAN :
              buildRouteFromStore(directionsInstance, drawOk)
       ELSE UNCHANGED <<directionsInstance, overlays, created, unhandled>>
  /\ UNCHANGED <<responsePoints, firstPoint, secondPoint, contextMap,
                 clickCalls, lastAlert, clickStart>>
  /\ UNCHANGED <<storeVars, drawerVars, finderVars, layerVars, otherVars>>

\* map.on('click', ...): buildRouteOnClick(map, coordinates), with the
\* directionsInstance the registered closure holds
MapClick ==
  /\ mapReady /\ OverlayRoom
  /\ buildRouteOnClick(handlerDirections)
  /\ UNCHANGED <<responsePoints, firstPoint, secondPoint, contextMap, mapReady,
                 handlerDirections, lastAlert, unhandled>>
  /\ UNCHANGED <<storeVars, drawerVars, finderVars, layerVars, otherVars>>

\* buildRouteOnClick after its await: directions.pedestrianRoute({points})
\* .catch(...); a failed request, a malformed response and a rejected draw
\* are caught and logged, and the instance stays as created
ClickResponse(id, ok) ==
  /\ id \in clickCalls
  /\ clickCalls' = clickCalls \ {id}
  /\ overlays' = [overlays EXCEPT
       ![id] = IF ok /\ @ = "created" THEN "drawn" ELSE @]
  /\ UNCHANGED <<responsePoints, firstPoint, secondPoint, contextMap, mapReady,
                 directionsInstance, handlerDirections, created, lastAlert, unhandled, clickStart>>
  /\ UNCHANGED <<storeVars, drawerVars, finderVars, layerVars, otherVars>>

\* store: setFirstPoint(point) / setSecondPoint(point)
setFirstPoint(point) ==
  /\ firstPoint # point
  /\ firstPoint' = point
  /\ UNCHANGED <<responsePoints, secondPoint, contextMap, mapReady,
                 directionsInstance, handlerDirections, overlays, created,
                 clickCalls, lastAlert, unhandled, clickStart>>
  /\ UNCHANGED <<storeVars, drawerVars, finderVars, layerVars, otherVars>>

setSecondPoint(point) ==
  /\ secondPoint # point
  /\ secondPoint' = point
  /\ UNCHANGED <<responsePoints, firstPoint, contextMap, mapReady,
                 directionsInstance, handlerDirections, overlays, created,
                 clickCalls, lastAlert, unhandled, clickStart>>
  /\ UNCHANGED <<storeVars, drawerVars, finderVars, layerVars, otherVars>>

\* MapProvider: setMapInstance(map)
setMapInstance ==
  /\ mapReady /\ ~contextMap
  /\ contextMap' = TRUE
  /\ UNCHANGED <<responsePoints, firstPoint, secondPoint, mapReady,
                 directionsInstance, handlerDirections, overlays, created,
                 clickCalls, lastAlert, unhandled, clickStart>>
  /\ UNCHANGED <<storeVars, drawerVars, finderVars, layerVars, otherVars>>

\* The profile buttons are disabled while their request is loading or a
\* point is missing.
ButtonEnabled(k) == ~loading[k] /\ firstPoint /\ secondPoint

\* handleWheelchairRoute / handleRestroomsRoute / handleLowStimulusRoute /
\* handleGreenRoute up to the await: if (!firstPoint || !secondPoint)
\* { alert; return }; setIsLoading(true); the service is called
handleProfileRoute(k) ==
  IF ~firstPoint \/ ~secondPoint
  THEN /\ lastAlert' = [kind |-> "points", profile |-> k]
       /\ UNCHANGED <<loading, profileCalls>>
  ELSE /\ loading' = [loading EXCEPT ![k] = TRUE]
       /\ profileCalls' = profileCalls \cup {[profile |-> k, live |-> TRUE]}
       /\ lastAlert' = NoAlert

\* mutant: the button and the handler check no point
ClickProfile_NoPointCheck(k) ==
  /\ FinderMounted /\ ~loading[k] /\ OverlayRoom
  /\ \A c \in profileCalls : c.profile # k
  /\ loading' = [loading EXCEPT ![k] = TRUE]
  /\ profileCalls' = profileCalls \cup {[profile |-> k, live |-> TRUE]}
  /\ lastAlert' = NoAlert
  /\ UNCHANGED searchVars
  /\ UNCHANGED <<responsePoints, firstPoint, secondPoint, contextMap, mapReady,
                 directionsInstance, handlerDirections, overlays, created,
                 clickCalls, unhandled, clickStart>>
  /\ UNCHANGED <<storeVars, drawerVars, layerVars, otherVars>>

ClickProfile(k) ==
  /\ FinderMounted /\ ButtonEnabled(k) /\ OverlayRoom
  \* bound: one request per profile awaits its response
  /\ \A c \in profileCalls : c.profile # k
  /\ handleProfileRoute(k)
  /\ UNCHANGED searchVars
  /\ UNCHANGED <<responsePoints, firstPoint, secondPoint, contextMap, mapReady,
                 directionsInstance, handlerDirections, overlays, created,
                 clickCalls, unhandled, clickStart>>
  /\ UNCHANGED <<storeVars, drawerVars, layerVars, otherVars>>

\* mutant: the flag is released on success only (the finally block is lost)
ProfileResponse_NoFinally(c, ok) ==
  /\ c \in profileCalls
  /\ profileCalls' = profileCalls \ {c}
  /\ IF ok /\ contextMap
       THEN /\ created' = created + 1
            /\ overlays' = [overlays EXCEPT ![created + 1] = "drawn"]
            /\ lastAlert' = NoAlert
            /\ loading' = IF c.live THEN [loading EXCEPT ![c.profile] = FALSE]
                                    ELSE loading
       ELSE /\ lastAlert' = [kind |-> "failure", profile |-> c.profile]
            /\ UNCHANGED <<overlays, created, loading>>
  /\ UNCHANGED searchVars
  /\ UNCHANGED <<responsePoints, firstPoint, secondPoint, contextMap, mapReady,
                 directionsInstance, handlerDirections, clickCalls, unhandled, clickStart>>
  /\ UNCHANGED <<storeVars, drawerVars, layerVars, otherVars>>

\* The handler after its await: directions = new Directions(mapInstance, ...);
\* directions.pedestrianRoute({points}); a failure (of the request, or of the
\* overlay for want of a map) is caught and alerted; finally the loading flag
\* is released.  The promise of pedestrianRoute is neither awaited nor given
\* a catch: when the draw is rejected, the rejection is unhandled.
ProfileResponse(c, ok) ==
  /\ c \in profileCalls
  /\ profileCalls' = profileCalls \ {c}
  /\ IF ok /\ contextMap
       THEN /\ created' = created + 1
            /\ \E drawOk \in BOOLEAN :
                 /\ overlays' = [overlays EXCEPT ![created + 1] =
                                   IF drawOk THEN "drawn" ELSE "created"]
                 /\ unhandled' = IF drawOk THEN unhandled
                                 ELSE unhandled \cup {"profile"}
            /\ lastAlert' = NoAlert
       ELSE /\ lastAlert' = [kind |-> "failure", profile |-> c.profile]
            /\ UNCHANGED <<overlays, created, unhandled, clickStart>>
  /\ loading' = IF c.live THEN [loading EXCEPT ![c.profile] = FALSE]
                          ELSE loading
  /\ UNCHANGED searchVars
  /\ UNCHANGED <<responsePoints, firstPoint, secondPoint, contextMap, mapReady,
                 directionsInstance, handlerDirections, clickCalls,
                 clickStart>>
  /\ UNCHANGED <<storeVars, drawerVars, layerVars, otherVars>>

OverlayNext ==
  \/ setResponsePoints
  \/ MapInit
  \/ MapClick
  \/ \E id \in clickCalls, ok \in BOOLEAN : ClickResponse(id, ok)
  \/ \E point \in BOOLEAN : setFirstPoint(point)
  \/ \E point \in BOOLEAN : setSecondPoint(point)
  \/ setMapInstance
  \/ \E k \in Profiles : ClickProfile(k)
  \/ \E c \in profileCalls, ok \in BOOLEAN : ProfileResponse(c, ok)
  \/ ToggleDrawer

OverlaySpec == Init /\ [][OverlayNext]_vars

\* Every route request settles: the service's call resolves, or rejects (at
\* the latest when the client's timeout runs out).
ProfileCalls == [profile : Profiles, live : BOOLEAN]
RequestsSettle ==
  \A c \in ProfileCalls : WF_vars(\E ok \in BOOLEAN : ProfileResponse(c, ok))

FairOverlaySpec == OverlaySpec /\ RequestsSettle

\* ------------------------------------------- the generated route layers
\* initMap after `await load()`: setMapglAPIState, the map is created,
\* setMapInstance, and the styleload and click handlers are registered.
\* bigResponce is a constant of the page: every build uses the same one.
initMap(r) ==
  /\ ~mapLoaded
  /\ reinits = 0 \/ r = response
  /\ mapLoaded' = TRUE
  /\ mapglAPIState' = TRUE
  /\ response' = r
  /\ UNCHANGED <<styleLoaded, clickHandler, mapSources, mapLayers, raised,
                 lastBuilt, rebuilds, reinits>>
  /\ UNCHANGED <<storeVars, drawerVars, finderVars, mapVars, otherVars>>

\* What the handleMapClick of the render that runs the init effect closes
\* over: that render's mapglAPIState, and its mapInstance, which is the map
\* the effect's cleanup destroys.
CapturedHandler ==
  [api |-> mapglAPIState, map |-> IF mapLoaded THEN "destroyed" ELSE "null"]

\* The init effect depends on [location]: when the geolocation changes, the
\* cleanup destroys the map and the effect builds a new one.
locationChange ==
  /\ mapLoaded /\ reinits < MaxReinits
  /\ clickHandler' = CapturedHandler
  /\ mapLoaded' = FALSE
  /\ styleLoaded' = FALSE
  /\ mapSources' = <<>>
  /\ mapLayers' = <<>>
  /\ raised' = FALSE
  /\ lastBuilt' = NotBuilt
  /\ reinits' = reinits + 1
  /\ UNCHANGED <<mapglAPIState, response, rebuilds>>
  /\ UNCHANGED <<storeVars, drawerVars, finderVars, mapVars, otherVars>>

\* map.on('styleload', ...): layers = generateLayers(bigResponce, mapglAPI,
\* map); layers.forEach(map.addLayer)
styleload ==
  /\ mapLoaded /\ ~styleLoaded
  /\ LET out == generateLayers(response) IN
       /\ mapSources' = mapSources \o out.sources
       /\ mapLayers' = mapLayers \o out.layers
       /\ raised' = out.raised
       /\ lastBuilt' = [sources |-> out.sources, layers |-> out.layers,
                        map |-> "live"]
  /\ styleLoaded' = TRUE
  /\ UNCHANGED <<mapLoaded, mapglAPIState, clickHandler, response, rebuilds,
                 reinits>>
  /\ UNCHANGED <<storeVars, drawerVars, finderVars, mapVars, otherVars>>

\* handleMapClick: layers = generateLayers(bigResponce, mapglAPIState,
\* mapInstance); each layer is added to mapInstance inside try/catch; then
\* updateRouteData(mockRouteData).  mapglAPIState and mapInstance are those
\* of the handler registered by the init effect: with mapglAPIState null
\* the first `new mapglAPI.GeoJsonSource` raises, otherwise the sources and
\* layers go to the map the handler holds, which is never the living one.
\* `bigResponce.stages` in mockRouteData raises when the response is missing.
handleMapClick ==
  /\ mapLoaded /\ rebuilds < MaxRebuilds
  /\ rebuilds' = rebuilds + 1
  /\ LET out == generateLayers(response)
         noApi == ~clickHandler.api /\ StagesOf(response) # <<>>
     IN /\ raised' = (noApi \/ out.raised)
        /\ lastBuilt' = IF noApi
                        THEN [sources |-> <<>>, layers |-> <<>>,
                              map |-> clickHandler.map]
                        ELSE [sources |-> out.sources, layers |-> out.layers,
                              map |-> clickHandler.map]
        /\ IF noApi \/ out.raised \/ response = Absent
             THEN UNCHANGED <<storeVars, drawerVars, finderVars>>
             ELSE StoreStep(updateRouteData("routeA"))
  /\ UNCHANGED <<mapLoaded, mapglAPIState, styleLoaded, clickHandler, response,
                 mapSources, mapLayers, reinits>>
  /\ UNCHANGED <<mapVars, otherVars>>

LayerNext ==
  \/ \E r \in Responses : initMap(r)
  \/ styleload
  \/ handleMapClick
  \/ locationChange

LayerSpec == Init /\ [][LayerNext]_vars

\* ------------------------------------------------ the route decoder
\* routingService.parseWKTLineString(wktString) is called with a text.  The
\* service keeps no state between calls: a behaviour holds one call.
decode(pairs, spaced, d) ==
  /\ wktString = <<>>
  /\ wktString' = WriteWKT(pairs, spaced, d)
  /\ coordinates' = parseWKTLineString(wktString')
  /\ written' = pairs
  /\ defect' = d
  /\ UNCHANGED <<storeVars, drawerVars, finderVars, mapVars, layerVars,
                 geoVars, chatVars>>

DecodeNext ==
  \E pairs \in PairLists, spaced \in BOOLEAN, d \in Defects :
    decode(pairs, spaced, d)

DecodeSpec == Init /\ [][DecodeNext]_vars

\* ------------------------------------------------ the geolocation prompt
\* The prompt effect of Map, on the values of the render that follows the
\* step: if (geolocationPermission === null && !hasRequestedLocation &&
\* !isGeoLoading && !location && !geoError) setShowGeolocationPrompt(true).
\* `shown` is the prompt state the step's handler leaves.
PromptEffect(shown) ==
  showGeolocationPrompt' =
    (shown \/ (/\ geolocationPermission' = "null"
               /\ ~hasRequestedLocation'
               /\ ~isGeoLoading' /\ ~location' /\ ~geoError'))

\* getCurrentPosition(): without navigator.geolocation setError(...);
\* otherwise setIsLoading(true), setError(null) and the request is made
getCurrentPosition(supported) ==
  IF supported
  THEN /\ isGeoLoading' = TRUE
       /\ geoError' = FALSE
       /\ geoPending' = geoPending + 1
  ELSE /\ geoError' = TRUE
       /\ UNCHANGED <<isGeoLoading, geoPending>>

\* Mount of Map: the hook's effect calls getCurrentPosition() and the prompt
\* effect runs on the first render's values (nothing loading, no fix, no
\* error yet): the prompt is shown when no permission is stored.
mountEffects(supported) ==
  /\ ~geoMounted
  /\ geoMounted' = TRUE
  /\ getCurrentPosition(supported)
  /\ showGeolocationPrompt' =
       (geolocationPermission = "null" /\ ~hasRequestedLocation
          /\ ~isGeoLoading /\ ~location /\ ~geoError)
  /\ UNCHANGED <<location, geolocationPermission, hasRequestedLocation,
                 answered, wktVars, chatVars>>
  /\ UNCHANGED <<storeVars, drawerVars, finderVars, mapVars, layerVars>>

\* navigator.geolocation answers a request with a position:
\* setLocation(...), setIsLoading(false)
positionSuccess ==
  /\ geoPending > 0
  /\ geoPending' = geoPending - 1
  /\ location' = TRUE
  /\ isGeoLoading' = FALSE
  /\ UNCHANGED <<geoError, geoMounted, geolocationPermission,
                 hasRequestedLocation, answered, wktVars, chatVars>>
  /\ PromptEffect(showGeolocationPrompt)
  /\ UNCHANGED <<storeVars, drawerVars, finderVars, mapVars, layerVars>>

\* navigator.geolocation answers a request with an error:
\* setError(message), setIsLoading(false)
positionError ==
  /\ geoPending > 0
  /\ geoPending' = geoPending - 1
  /\ geoError' = TRUE
  /\ isGeoLoading' = FALSE
  /\ UNCHANGED <<location, geoMounted, geolocationPermission,
                 hasRequestedLocation, answered, wktVars, chatVars>>
  /\ PromptEffect(showGeolocationPrompt)
  /\ UNCHANGED <<storeVars, drawerVars, finderVars, mapVars, layerVars>>

\* mutant: the answer is not recorded, the prompt is only hidden
handleAllowGeolocation_NotRecorded(supported) ==
  /\ geoMounted /\ showGeolocationPrompt
  /\ answered' = "allow"
  /\ getCurrentPosition(supported)
  /\ UNCHANGED <<location, geoMounted, wktVars, chatVars, hasRequestedLocation,
                 geolocationPermission>>
  /\ PromptEffect(FALSE)
  /\ StoreStep(updateRouteData("routeA"))
  /\ UNCHANGED <<mapVars, layerVars>>

\* handleAllowGeolocation: setShowGeolocationPrompt(false),
\* setHasRequestedLocation(true), setGeolocationPermission('granted'),
\* getCurrentPosition(), updateRouteData({... message})
handleAllowGeolocation(supported) ==
  /\ geoMounted /\ showGeolocationPrompt
  /\ answered' = "allow"
  /\ hasRequestedLocation' = TRUE
  /\ geolocationPermission' = "granted"
  /\ getCurrentPosition(supported)
  /\ UNCHANGED <<location, geoMounted, wktVars, chatVars>>
  /\ PromptEffect(FALSE)
  /\ StoreStep(updateRouteData("routeA"))
  /\ UNCHANGED <<mapVars, layerVars>>

\* handleDenyGeolocation: setShowGeolocationPrompt(false),
\* setHasRequestedLocation(true), setGeolocationPermission('denied'),
\* updateRouteData({... message})
handleDenyGeolocation ==
  /\ geoMounted /\ showGeolocationPrompt
  /\ answered' = "deny"
  /\ hasRequestedLocation' = TRUE
  /\ geolocationPermission' = "denied"
  /\ UNCHANGED <<location, geoError, isGeoLoading, geoPending, geoMounted,
                 wktVars, chatVars>>
  /\ PromptEffect(FALSE)
  /\ StoreStep(updateRouteData("routeA"))
  /\ UNCHANGED <<mapVars, layerVars>>

\* The map page: its geolocation, its prompt and its click-built routes.
GeoNext ==
  \/ \E supported \in BOOLEAN : mountEffects(supported)
  \/ positionSuccess
  \/ positionError
  \/ \E supported \in BOOLEAN : handleAllowGeolocation(supported)
  \/ handleDenyGeolocation
  \/ geoMounted /\ MapInit
  \/ MapClick
  \/ \E id \in clickCalls, ok \in BOOLEAN : ClickResponse(id, ok)

GeoSpec == Init /\ [][GeoNext]_vars

\* ------------------------------------------------------------ the chat
\* useEffect: if (chatMessages.length === 0) addChatMessage(welcomeMessage)
welcomeEffect ==
  /\ chatMessages = <<>>
  /\ chatMessages' = <<WelcomeMessage>>
  /\ UNCHANGED <<chatPending, sends, wktVars, geoVars>>
  /\ UNCHANGED <<storeVars, drawerVars, finderVars, mapVars, layerVars>>

\* handleSendMessage up to its await (the text is not blank):
\* addChatMessage(userMessage); addChatMessage(loadingMessage); the request
\* is posted.  The handler keeps the chatMessages of its render.
handleSendMessage ==
  /\ chatMessages # <<>> /\ sends < MaxSends
  /\ sends' = sends + 1
  /\ chatMessages' = chatMessages
                       \o <<UserMessage(sends + 1), LoadingMessage(sends + 1)>>
  /\ chatPending' = chatPending \cup {[n |-> sends + 1, seen |-> chatMessages]}
  /\ UNCHANGED <<wktVars, geoVars>>
  /\ UNCHANGED <<storeVars, drawerVars, finderVars, mapVars, layerVars>>

\* handleSendMessage after its await, in the try block and in the catch
\* block alike: updatedMessages = chatMessages.filter(not loading);
\* clearChatMessages(); updatedMessages.forEach(addChatMessage); then the
\* reply or the error text is added.  A reply with points stores them.
sendSettles(r, ok, hasPoints) ==
  /\ r \in chatPending
  /\ chatPending' = chatPending \ {r}
  /\ chatMessages' = WithoutLoading(r.seen)
                       \o <<IF ok THEN BotMessage(r.n) ELSE ErrorMessage(r.n)>>
  /\ responsePoints' = (responsePoints \/ (ok /\ hasPoints))
  /\ UNCHANGED <<firstPoint, secondPoint, contextMap, mapReady,
                 directionsInstance, handlerDirections, overlays, created,
                 clickCalls, lastAlert, unhandled, clickStart>>
  /\ UNCHANGED <<sends, wktVars, geoVars>>
  /\ UNCHANGED <<storeVars, drawerVars, finderVars, layerVars>>

ChatNext ==
  \/ welcomeEffect
  \/ handleSendMessage
  \/ \E r \in chatPending, ok \in BOOLEAN, hasPoints \in BOOLEAN :
       sendSettles(r, ok, hasPoints)

ChatSpec == Init /\ [][ChatNext]_vars

Next ==
  \/ DrawerNext \/ SearchNext \/ OverlayNext \/ LayerNext \/ DecodeNext
  \/ GeoNext \/ ChatNext
Spec == Init /\ [][Next]_vars

\* =================================================================== claims

\* C1: for each search field, once the responses of all its searches have
\* arrived, the suggestion list shows the response of the most recently
\* issued search of that field, whatever the order of arrival.
C1_LatestSearchWins ==
  \A f \in Fields :
    ({r \in inflight : r.field = f} = {} /\ applied[f] # 0)
      => applied[f] = issued[f]

\* A step in which the debounce timer of field f expires (the input settled).
DebounceFireStep(f) ==
  FinderMounted /\ FinderMounted' /\ timerArmed[f] /\ ~timerArmed'[f]

\* The search calls of field f issued by the step.
NewCalls(f) == {r \in inflight' : r.field = f /\ r.ticket > issued[f]}

\* C2 (as claimed): every burst of inputs to a field ends, when the input
\* settles, in exactly one search call carrying the last text; no call is
\* issued at any other moment.
C2_OneCallPerBurst ==
  [][\A f \in Fields :
       IF DebounceFireStep(f)
       THEN /\ Cardinality(NewCalls(f)) = 1
            /\ \A r \in NewCalls(f) : r.query = value[f]
       ELSE NewCalls(f) = {}]_vars

\* C2 (amended): no search call is issued for a text of a burst before the
\* input settles; when it settles, exactly one call is issued, carrying the
\* last text, if that text has at least 2 characters and differs from the
\* text the field settled on before, and no call is issued otherwise.
C2_OneCallPerSettledBurst ==
  [][\A f \in Fields :
       IF DebounceFireStep(f) /\ Len(value[f]) >= 2 /\ value[f] # debounced[f]
       THEN /\ Cardinality(NewCalls(f)) = 1
            /\ \A r \in NewCalls(f) : r.query = value[f]
       ELSE NewCalls(f) = {}]_vars

\* A field settled on a three-character text with a single call issued: the
\* texts typed on the way (one keystroke each) were skipped.
C2_Witness ==
  /\ FinderMounted
  /\ issued["from"] = 1
  /\ inflight = {[field |-> "from", query |-> <<"k", "k", "k">>, ticket |-> 1,
                  cancelled |-> FALSE]}
  /\ debounced["from"] = <<"k", "k", "k">>
  /\ ~timerArmed["from"]

\* A step in which the profile-route request c settles while the Finder that
\* sent it stays mounted.
ProfileSettles(c) ==
  c \in profileCalls /\ c \notin profileCalls' /\ FinderMounted'

\* C11: every profile-route request releases its loading flag: when the
\* request settles, with success or with failure, the flag of its Finder is
\* false, a failure is shown as a notice, and a raised flag is eventually
\* released.
C11_LoadingReleased ==
  /\ [][\A c \in ProfileCalls :
         (ProfileSettles(c) /\ c.live) =>
           /\ ~loading'[c.profile]
           /\ created' = created =>
                lastAlert' = [kind |-> "failure", profile |-> c.profile]]_vars
  /\ \A k \in Profiles : loading[k] ~> ~loading[k]

\* A failed wheelchair request has been alerted and its flag is released.
C11_Witness ==
  /\ FinderMounted /\ firstPoint /\ secondPoint
  /\ lastAlert = [kind |-> "failure", profile |-> "wheelchair"]
  /\ ~loading["wheelchair"]
  /\ \A c \in profileCalls : c.profile # "wheelchair"

\* C4: at most one route overlay instance is alive on the map at any time.
C4_AtMostOneOverlay == Cardinality(Alive) <= 1

\* C12: while the text of a search field is shorter than 2 characters the
\* field shows no suggestions: they are cleared on the input itself, without
\* waiting for the debounce delay.
C12_ShortTextNoSuggestions ==
  \A f \in Fields : Len(value[f]) < 2 => suggestions[f] = NoItems

\* C13: once a field's input is empty (and the debounce has settled on the
\* empty text) its suggestion list is empty, even if the response of a search
\* issued before the input was emptied arrives afterwards.
C13_EmptyInputStaysEmpty ==
  \A f \in Fields :
    (value[f] = <<>> /\ debounced[f] = <<>> /\ ~timerArmed[f])
      => suggestions[f] = NoItems

\* A step in which the search call r gets its response while the Finder
\* stays mounted.
Settles(r) ==
  /\ r \in inflight /\ FinderMounted'
  /\ \A q \in inflight' : q.field # r.field \/ q.ticket # r.ticket

\* C14: the response of a search that was in flight when its field was
\* cancelled (a suggestion picked) is never applied to the field's list.
C14_CancelledNeverApplied ==
  [][\A r \in inflight :
       (r.cancelled /\ Settles(r))
         => suggestions'[r.field] = suggestions[r.field]]_vars

\* C15: a failed search call leaves the suggestion list of its field empty,
\* raises no notice, and leaves the other field's suggestions unchanged.
C15_FailedSearch ==
  [][\A r \in inflight :
       (Settles(r) /\ applied'[r.field] = 0) =>
         /\ suggestions'[r.field] = NoItems
         /\ \A g \in Fields \ {r.field} : suggestions'[g] = suggestions[g]
         /\ lastAlert' = lastAlert]_vars

\* The only call of the from field has failed: its list is empty while the
\* to field still shows what its own search found.
C15_Witness ==
  /\ FinderMounted /\ inflight = {}
  /\ issued["from"] = 1 /\ applied["from"] = 0
  /\ value["from"] = <<"k", "k">> /\ debounced["from"] = <<"k", "k">>
  /\ suggestions["from"] = NoItems
  /\ applied["to"] = 1 /\ suggestions["to"] = ItemsFor(<<"k", "k", "k">>)

\* What the spinner of field g shows: {isSearching && fromValue && ...}
Spinner(g) == isSearching /\ value[g] # <<>>

\* A step of field f's own stream: an input, a timer expiry, a call or a
\* response of f.
FieldStep(f) ==
  /\ FinderMounted /\ FinderMounted'
  /\ \/ value'[f] # value[f]
     \/ debounced'[f] # debounced[f]
     \/ timerArmed'[f] # timerArmed[f]
     \/ {r \in inflight' : r.field = f} # {r \in inflight : r.field = f}

\* C16: no step of one field's stream changes what the other field reads:
\* its text, its suggestions, its searching indicator.
C16_FieldsIndependent ==
  [][\A f \in Fields : FieldStep(f) =>
       \A g \in Fields \ {f} :
         /\ value'[g] = value[g]
         /\ suggestions'[g] = suggestions[g]
         /\ (isSearching' /\ value'[g] # <<>>) = Spinner(g)]_vars

\* C17: the layer of stage i has the color palette[i mod 5], also for
\* i >= 5; the palette has 5 entries and no layer has an undefined color.
C17_ColorWrapsPalette ==
  /\ Len(colors) = 5
  /\ \A i \in DOMAIN mapLayers :
       /\ mapLayers[i].color = colors[((i - 1) % 5) + 1]
       /\ mapLayers[i].color # Undefined

\* C18: after every synthesize or rebuild call, the layers and sources on
\* the map are exactly those that this most recent call created: the call
\* put them on the living map and nothing of an earlier call remains.
C18_RebuildReplaces ==
  lastBuilt.map # "none" =>
    /\ lastBuilt.map = "live"
    /\ mapSources = lastBuilt.sources
    /\ mapLayers = lastBuilt.layers

\* The most recent generateLayers call was the styleload handler's and it
\* returned.
StyleloadReturned == styleLoaded /\ lastBuilt.map = "live" /\ ~raised

\* The stages of the response that have no geometries.
StageIsEmpty(i) == StagesOf(response)[i] \in EmptyStages

\* C19: a call that returns has put on the map exactly one source and one
\* layer per stage, in stage order, with id, filter key and color taken
\* from the stage index; a stage without geometries has its layer and an
\* empty feature collection, and the stages after it keep index and color.
C19_OneLayerPerStage ==
  StyleloadReturned =>
    /\ Len(mapLayers) = Len(StagesOf(response))
    /\ Len(mapSources) = Len(StagesOf(response))
    /\ \A i \in DOMAIN mapLayers :
         /\ mapLayers[i].id = <<"my-polygons-layer", i - 1>>
         /\ mapLayers[i].filter = ToString(i - 1)
         /\ mapLayers[i].color = ColorAt(i - 1)
         /\ mapSources[i].bar = ToString(i - 1)
         /\ StageIsEmpty(i) => mapSources[i].features = <<>>
         /\ StagesOf(response)[i] = PlainStage
              => Len(mapSources[i].features) = 1

C19_Witness ==
  /\ StyleloadReturned
  /\ Len(mapLayers) = 3
  /\ StageIsEmpty(2)
  /\ mapSources[2].features = <<>>
  /\ mapLayers[3].color = colors[3]
  /\ mapSources[3].features # <<>>

\* C20: the extraction in the styleload handler never raises on a partial
\* response, whichever collection or record is missing.
C20_ExtractionNeverRaises == (styleLoaded /\ lastBuilt.map = "live") => ~raised

\* The numbers of the pairs a text was written from.
WrittenPairs ==
  [i \in DOMAIN written |->
     <<JsNumber(written[i][1]), JsNumber(written[i][2])>>]

\* C21: decoding a malformed text (a missing parenthesis, a non-numeric
\* token, a pair with fewer than two tokens) returns the empty sequence.
C21_MalformedDecodesEmpty ==
  (wktString # <<>> /\ defect # "none") => coordinates = <<>>

\* C22: decoding a well-formed LINESTRING(...) text with N pairs returns
\* exactly N (lon, lat) pairs, in the order and with the numbers written.
C22_WellFormedDecodes ==
  (wktString # <<>> /\ defect = "none") => coordinates = WrittenPairs

C22_Witness ==
  /\ defect = "none"
  /\ wktString = <<Keyword, "(", "1", "2", " ", "2", ",", " ", "2", " ", "1",
                   ")">>
  /\ coordinates = <<<<JsNumber(12), JsNumber(2)>>,
                     <<JsNumber(2), JsNumber(1)>>>>

\* C23: the document-level move/end listeners are attached only while the
\* drawer is dragging: before the first drag, after a drag end and after
\* unmount none is attached.
C23_ListenersOnlyWhileDragging == ~isDragging => ~listenersAttached

C23_Witness ==
  /\ gestureDone /\ ~isDragging /\ ~listenersAttached
  /\ attachCount >= 1 /\ detachCount >= 1

\* C24: no failure at an asynchronous boundary of the route pipeline escapes
\* as an unhandled fault, for the click-built route, the store-built route
\* and the profile-route buttons.
C24_NoUnhandledFault == unhandled = {}

\* C29: a profile-route request is issued, and its loading flag raised, only
\* when both the start and the end point are selected; with a point missing
\* no step issues a call, creates an overlay for it or raises the flag.
C29_RequestNeedsBothPoints ==
  [][((\E k \in Profiles : loading'[k] /\ ~loading[k])
        \/ (\E c \in profileCalls' \ profileCalls : c.live))
       => (firstPoint /\ secondPoint)]_vars

C29_Witness ==
  /\ firstPoint /\ secondPoint
  /\ loading["wheelchair"]
  /\ [profile |-> "wheelchair", live |-> TRUE] \in profileCalls

\* C26: the searching indicator is true while at least one address search
\* is in flight.
C26_SearchingWhileInFlight == inflight # {} => isSearching

\* C27: a route built by a map click starts from the user's geolocation
\* whenever a fix is known at the time of the click, also when the fix
\* arrived after the map was initialised.
C27_ClickStartsFromFix ==
  (clickStart.from # "none" /\ clickStart.fix)
    => clickStart.from = "geolocation"

\* C30: once the user has answered the prompt, the prompt is hidden and the
\* stored permission is the answer, whatever geolocation results arrive.
C30_PromptAnsweredOnce ==
  /\ answered = "allow" =>
       (~showGeolocationPrompt /\ geolocationPermission = "granted")
  /\ answered = "deny" =>
       (~showGeolocationPrompt /\ geolocationPermission = "denied")

\* The prompt was allowed and the geolocation request has failed.
C30_Witness ==
  /\ answered = "allow" /\ geoPending = 0 /\ geoError /\ ~location
  /\ ~showGeolocationPrompt

\* a is a subsequence of b: the messages of a occur in b in the same order
RECURSIVE IsSubsequence(_, _)
IsSubsequence(a, b) ==
  IF a = <<>> THEN TRUE
  ELSE IF b = <<>> THEN FALSE
  ELSE IF Head(a) = Head(b) THEN IsSubsequence(Tail(a), Tail(b))
  ELSE IsSubsequence(a, Tail(b))

\* C28: when a chat send completes, the list holds no loading placeholder,
\* holds every message present before the send and the user's message, in
\* their order, and ends with exactly one new bot message for the send.
C28_SendKeepsHistory ==
  [][\A r \in chatPending : (chatPending' = chatPending \ {r}) =>
       /\ WithoutLoading(chatMessages') = chatMessages'
       /\ IsSubsequence(WithoutLoading(r.seen) \o <<UserMessage(r.n)>>,
                        chatMessages')
       /\ chatMessages'[Len(chatMessages')] \in {BotMessage(r.n),
                                                 ErrorMessage(r.n)}
       /\ Cardinality({i \in DOMAIN chatMessages' :
              chatMessages'[i] \in {BotMessage(r.n), ErrorMessage(r.n)}}) = 1
    ]_vars

\* A step in which a drag ends through the end handler (not by unmounting).
DragEndStep == isDragging /\ ~isDragging' /\ layoutMounted'

\* A gesture is over: the drag has ended and the click it may produce has run.
GestureOver == gestureDone /\ ~isDragging /\ ~pendingClick /\ layoutMounted

\* C3: the drawer's move/end listeners are attached exactly once per drag and
\* detached exactly once when the drag ends (or the component unmounts); no
\* attach or detach happens in between, in particular not on a drag move.
C3_ListenersOncePerDrag ==
  /\ isDragging => (listenersAttached /\ attachCount = 1 /\ detachCount = 0)
  /\ (~isDragging /\ (gestureDone \/ pendingClick))
       => (~listenersAttached /\ attachCount = 1 /\ detachCount = 1)

\* C5: a drag that ends with dragDelta <= -50 (exactly 50 included) while the
\* pre-drag state was collapsed leaves the drawer expanded.
C5_DragUpExpands ==
  [][(DragEndStep /\ ~interfered /\ ~preDragOpen /\ ~isDrawerOpen
        /\ currentY - startY <= -threshold) => isDrawerOpen']_vars

\* C6: a drag that ends with dragDelta >= +50 (exactly 50 included) while the
\* pre-drag state was expanded leaves the drawer collapsed.
C6_DragDownCollapses ==
  [][(DragEndStep /\ ~interfered /\ preDragOpen /\ isDrawerOpen
        /\ currentY - startY >= threshold) => ~isDrawerOpen']_vars

\* C7: after a gesture whose drag ended below the threshold, or in the
\* direction the gate rejects, the drawer's open/closed state equals its
\* pre-drag state.
SnapBackDelta(d, open) ==
  \/ Abs(d) < threshold
  \/ d < 0 /\ open
  \/ d > 0 /\ ~open

C7_SnapBack ==
  (GestureOver /\ ~interfered /\ SnapBackDelta(lastDelta, preDragOpen))
    => isDrawerOpen = preDragOpen

\* The drag of the gesture ended beyond the threshold in the direction the
\* gate accepts: drag end has toggled the drawer.
DragCommitted(d, open) ==
  Abs(d) > threshold /\ ((d > 0 /\ open) \/ (d < 0 /\ ~open))

\* C25: one press-drag-release gesture changes the drawer's state at most
\* once: after a committed drag the drawer is in the other state (the click
\* of the same gesture does not undo it), and after a drag that moved but
\* was not committed it is in its pre-drag state.
C25_OneTogglePerGesture ==
  (GestureOver /\ ~interfered) =>
    /\ DragCommitted(lastDelta, preDragOpen) => isDrawerOpen # preDragOpen
    /\ (~DragCommitted(lastDelta, preDragOpen) /\ lastDelta # 0)
         => isDrawerOpen = preDragOpen

\* C8 (as claimed): setRoute(data) replaces the active route with data and
\* forces the drawer into expanded for every value of data.
C8_SetRouteAlwaysExpands ==
  lastOp.op = "setRoute" => (routeData = lastOp.arg /\ isDrawerOpen)

\* C8 (amended): setRoute(data) replaces the active route with data for every
\* value of data; it forces the drawer into expanded when data is non-null and
\* leaves the drawer state as it was when data is null.
C8_SetRoute ==
  lastOp.op = "setRoute" =>
    /\ routeData = lastOp.arg
    /\ lastOp.arg # NULL => isDrawerOpen
    /\ lastOp.arg = NULL => isDrawerOpen = lastOp.was

C8_Witness ==
  lastOp.op = "setRoute" /\ lastOp.arg = "routeB" /\ ~lastOp.was
    /\ routeData = "routeB" /\ isDrawerOpen

\* C9: clear() in any reachable state, in particular directly after
\* setRoute(data), leaves the active route none and the drawer collapsed.
C9_Clear ==
  lastOp.op = "clear" => (routeData = NULL /\ ~isDrawerOpen)

C9_Witness ==
  lastOp.op = "clear" /\ lastOp.wasRoute = "routeA" /\ lastOp.was
    /\ routeData = NULL /\ ~isDrawerOpen

\* C10: an explicit toggle(target) issued while the drawer is collapsed or
\* expanded (not dragging) puts the drawer in exactly the target state and
\* does not enter dragging, whatever the last drag's delta was.
ExplicitToggleStep ==
  lastOp' # lastOp /\ lastOp'.op = "toggle" /\ ~isDragging

C10_ExplicitToggle ==
  [][ExplicitToggleStep =>
       (isDrawerOpen' = (lastOp'.arg = "true") /\ ~isDragging'
          /\ startY' = startY /\ currentY' = currentY)]_vars

C10_Witness ==
  lastOp.op = "toggle" /\ lastOp.arg = "false" /\ lastOp.was /\ ~isDrawerOpen
    /\ ~isDragging /\ lastDelta < -threshold

====
